---- MODULE Spec2Model ----
(***************************************************************************)
(* State-machine model of the monitoring-stack microservices:              *)
(*   - product service (src/microservices/user-service/utils/              *)
(*     customMetrics.js, lines 77-451),                                    *)
(*   - user service (src/unnamed/part_001),                                *)
(*   - order service (src/microservices/order-service/utils/               *)
(*     customMetrics.js, lines 83-543) and the database bootstrap script   *)
(*     (same file, lines 544-598).                                         *)
(* Every handler is an async function: it runs atomically between two      *)
(* awaits, so each action below is one such segment (the database or peer  *)
(* operation awaited, followed by the synchronous code up to the next      *)
(* await), and segments of different requests interleave freely.           *)
(***************************************************************************)
EXTENDS Integers, Sequences, FiniteSets, TLC

VARIABLES
  products,   \* collection `products`: sequence of documents, index = _id
  pcache,     \* product service: const cache = new Map()
  preq,       \* product service: requests in flight, per slot
  users,      \* collection `users`: sequence of documents, index = _id
  ucache,     \* user service: const cache = new Map()
  ureq,       \* user service: requests in flight, per slot
  orders,     \* collection `orders`: sequence of documents, index = _id
  oreq,       \* order service: POST /api/orders requests in flight, per slot
  sreq,       \* order service: requests to its other handlers, per slot
  now         \* wall clock, in units of 30 s

pvars == <<products, pcache, preq>>
uvars == <<users, ucache, ureq>>
ovars == <<orders, oreq, sreq>>

\* ------------------------------------------------------------------ bounds

MaxProducts == 3
MaxStock == 2
MaxQty == 2
MaxPage == 2
MaxTime == 3

\* ------------------------------------------------------------ general helpers

Min(a, b) == IF a < b THEN a ELSE b

StockRange == (0 - MaxStock)..MaxStock
QtySet == (0 - 1)..MaxQty
Prices == {2, 3}
CreateStocks == {0 - 1, 0, MaxStock}
PIdSet == 1..MaxProducts
Pages == 1..MaxPage
Limits == {1}

\* The in-process cache is a plain Map.  Map.prototype.set takes (key, value):
\* the third argument the handlers pass (the TTL) is ignored, and Map.get never
\* looks at the clock.  `at` and `ttl` record the time of the write and the
\* TTL that was passed; nothing in the handlers reads them.
EmptyCache == [k \in {} |-> 0]

CacheHas(c, k) == k \in DOMAIN c

CacheGet(c, k) == c[k].value

CacheSet(c, k, v, ttl) ==
  [x \in DOMAIN c \cup {k} |->
     IF x = k THEN [value |-> v, at |-> now, ttl |-> ttl] ELSE c[x]]

\* An entry whose TTL has run out: now - insertedAt > ttl.
Stale(c, k) == CacheHas(c, k) /\ now - c[k].at > c[k].ttl

\* .skip(skip).limit(limit) over a cursor
Slice(s, skip, limit) ==
  IF skip >= Len(s) THEN <<>> ELSE SubSeq(s, skip + 1, Min(skip + limit, Len(s)))

\* what the handlers and the middleware record about one request: `sent` counts
\* the calls of the original res.end, `httpInc` and `httpObs` list the status
\* labels of the http_requests_total.inc and http_request_duration_seconds
\* .observe calls, `ctype` is the kind of body ("json" for res.json, "text"
\* for res.end(string)); lookupHits/lookupMisses count the cache.get calls by
\* outcome, hitsInc/missesInc the cacheHitsTotal.inc and cacheMissesTotal.inc
\* calls.
NoTelemetry ==
  [sent |-> 0, httpInc |-> <<>>, httpObs |-> <<>>, ctype |-> "none",
   lookupHits |-> 0, lookupMisses |-> 0, hitsInc |-> 0, missesInc |-> 0]

\* res.end once the original end has run: the response is on the wire
ResEnd(q, statusCode, ctype) ==
  [q EXCEPT !.pc = "done", !.status = statusCode, !.ctype = ctype,
            !.sent = q.sent + 1]

\* cache.get(key) alone
UncountedLookup(q, hit) ==
  [q EXCEPT !.lookupHits = q.lookupHits + (IF hit THEN 1 ELSE 0),
            !.lookupMisses = q.lookupMisses + (IF hit THEN 0 ELSE 1)]

\* -------------------------------------------------------------- product service

ProductTTL == 1   \* 30000 ms

\* the documents of the collection with their _id
ProductDocs ==
  [i \in 1..Len(products) |->
     [id |-> i, stock |-> products[i].stock, price |-> products[i].price]]

ProductExists(id) == id \in 1..Len(products)

ProductsKey(page, limit) == <<"products", "all", page, limit, "name", "asc">>

PIdle ==
  [op |-> "idle", pc |-> "idle", id |-> 0, qty |-> 0, seen |-> 0,
   modified |-> 0, page |-> 0, limit |-> 0, found |-> <<>>, total |-> 0,
   stale |-> FALSE, status |-> 0, error |-> "none"] @@ NoTelemetry

\* the metrics middleware of the product service: res.end is replaced by a
\* function that counts the request and observes its duration under
\* res.statusCode, then calls the original end
ProductMetricsMiddleware(q, statusCode, ctype) ==
  ResEnd([q EXCEPT !.httpInc = Append(q.httpInc, statusCode),
                   !.httpObs = Append(q.httpObs, statusCode)],
         statusCode, ctype)

\* res.status(status).json(body); `modified` is a local of the handler and
\* ends with it
PRespond(q, status, error) ==
  [ProductMetricsMiddleware(q, status, "json") EXCEPT !.error = error,
                                                      !.modified = 0]

PReqs == {"p1", "p2"}

\* GET /api/products: cache lookup.  On a hit `products` is the cached object
\* {products, totalProducts}, which has no forEach: the TypeError is caught and
\* answered with 500.  Neither branch of the lookup touches a counter (the
\* service imports no cache counter).
ProductListStart(r) ==
  /\ preq[r].pc = "idle"
  /\ \E page \in Pages, limit \in Limits :
       LET q == UncountedLookup(
                  [PIdle EXCEPT !.op = "list", !.page = page, !.limit = limit,
                                !.stale = Stale(pcache, ProductsKey(page, limit))],
                  CacheHas(pcache, ProductsKey(page, limit)))
       IN preq' = [preq EXCEPT ![r] =
                     IF CacheHas(pcache, ProductsKey(page, limit))
                       THEN PRespond(q, 500, "products.forEach is not a function")
                       ELSE [q EXCEPT !.pc = "find"]]
  /\ UNCHANGED <<products, pcache, now, uvars, ovars>>

ProductListFind(r) ==
  /\ preq[r].op = "list" /\ preq[r].pc = "find"
  /\ preq' = [preq EXCEPT ![r].pc = "count",
                ![r].found = Slice(ProductDocs, (preq[r].page - 1) * preq[r].limit,
                                   preq[r].limit)]
  /\ UNCHANGED <<products, pcache, now, uvars, ovars>>

ProductListCount(r) ==
  /\ preq[r].op = "list" /\ preq[r].pc = "count"
  /\ preq' = [preq EXCEPT ![r].pc = "counted", ![r].total = Len(products)]
  /\ UNCHANGED <<products, pcache, now, uvars, ovars>>

ProductListRespond(r) ==
  /\ preq[r].op = "list" /\ preq[r].pc = "counted"
  /\ pcache' = CacheSet(pcache, ProductsKey(preq[r].page, preq[r].limit),
                        [products |-> preq[r].found, totalProducts |-> preq[r].total],
                        ProductTTL)
  /\ preq' = [preq EXCEPT ![r] = PRespond(preq[r], 200, "none")]
  /\ UNCHANGED <<products, now, uvars, ovars>>

\* POST /api/products
ProductCreateStart(r) ==
  /\ preq[r].pc = "idle"
  /\ Len(products) + Cardinality({x \in PReqs : preq[x].op = "create"
                                                  /\ preq[x].pc = "insertOne"})
       < MaxProducts
  /\ \E complete \in BOOLEAN, price \in Prices, stock \in CreateStocks :
       LET q == [PIdle EXCEPT !.op = "create", !.qty = stock, !.seen = price]
       IN preq' = [preq EXCEPT ![r] =
                     IF ~complete
                       THEN PRespond(q, 400, "Missing required fields")
                       ELSE [q EXCEPT !.pc = "insertOne"]]
  /\ UNCHANGED <<products, pcache, now, uvars, ovars>>

ProductCreateInsert(r) ==
  /\ preq[r].op = "create" /\ preq[r].pc = "insertOne"
  /\ products' = Append(products, [stock |-> preq[r].qty, price |-> preq[r].seen])
  /\ preq' = [preq EXCEPT ![r].pc = "inserted", ![r].id = Len(products) + 1]
  /\ UNCHANGED <<pcache, now, uvars, ovars>>

ProductCreateRespond(r) ==
  /\ preq[r].op = "create" /\ preq[r].pc = "inserted"
  /\ pcache' = EmptyCache
  /\ preq' = [preq EXCEPT ![r] = PRespond(preq[r], 201, "none")]
  /\ UNCHANGED <<products, now, uvars, ovars>>

\* PUT /api/products/:id/stock
StockStart(r) ==
  /\ preq[r].pc = "idle"
  /\ \E id \in PIdSet, isNumber \in BOOLEAN, quantity \in QtySet :
       LET q == [PIdle EXCEPT !.op = "stock", !.id = id, !.qty = quantity]
       IN preq' = [preq EXCEPT ![r] =
                     IF ~isNumber
                       THEN PRespond(q, 400, "Quantity must be a number")
                       ELSE [q EXCEPT !.pc = "updateOne"]]
  /\ UNCHANGED <<products, pcache, now, uvars, ovars>>

\* updateOne({_id}, {$inc: {stock: quantity}, $set: {updatedAt}})
IncStock(id, quantity) ==
  [products EXCEPT ![id].stock = products[id].stock + quantity]

StockUpdate(r) ==
  /\ preq[r].op = "stock" /\ preq[r].pc = "updateOne"
  /\ IF ProductExists(preq[r].id)
       THEN /\ products[preq[r].id].stock + preq[r].qty \in StockRange
            /\ products' = IncStock(preq[r].id, preq[r].qty)
            /\ preq' = [preq EXCEPT ![r].pc = "updated", ![r].modified = 1]
       ELSE /\ products' = products
            /\ preq' = [preq EXCEPT ![r].pc = "updated", ![r].modified = 0]
  /\ UNCHANGED <<pcache, now, uvars, ovars>>

StockRespond(r) ==
  /\ preq[r].op = "stock" /\ preq[r].pc = "updated"
  /\ IF preq[r].modified = 0
       THEN /\ preq' = [preq EXCEPT ![r] = PRespond(preq[r], 404, "Product not found")]
            /\ pcache' = pcache
       ELSE /\ preq' = [preq EXCEPT ![r] = PRespond(preq[r], 200, "none")]
            /\ pcache' = EmptyCache
  /\ UNCHANGED <<products, now, uvars, ovars>>

\* POST /api/products/:id/purchase
PurchaseStart(r) ==
  /\ preq[r].pc = "idle"
  /\ \E id \in PIdSet, quantity \in QtySet :
       preq' = [preq EXCEPT ![r] =
                  [PIdle EXCEPT !.op = "purchase", !.pc = "findOne",
                                !.id = id, !.qty = quantity]]
  /\ UNCHANGED <<products, pcache, now, uvars, ovars>>

PurchaseFind(r) ==
  /\ preq[r].op = "purchase" /\ preq[r].pc = "findOne"
  /\ preq' = [preq EXCEPT ![r] =
       IF ~ProductExists(preq[r].id)
         THEN PRespond(preq[r], 404, "Product not found")
       ELSE IF products[preq[r].id].stock < preq[r].qty
         THEN PRespond([preq[r] EXCEPT !.seen = products[preq[r].id].stock],
                       400, "Insufficient stock")
       ELSE [preq[r] EXCEPT !.pc = "updateOne",
                            !.seen = products[preq[r].id].stock]]
  /\ UNCHANGED <<products, pcache, now, uvars, ovars>>

\* the filter of the purchase updateOne: {_id, stock: {$gte: quantity}}
PurchaseFilterUnguarded(id, quantity) == ProductExists(id)

PurchaseFilter(id, quantity) ==
  ProductExists(id) /\ products[id].stock >= quantity

PurchaseUpdate(r) ==
  /\ preq[r].op = "purchase" /\ preq[r].pc = "updateOne"
  /\ IF PurchaseFilter(preq[r].id, preq[r].qty)
       THEN /\ products[preq[r].id].stock - preq[r].qty \in StockRange
            /\ products' = IncStock(preq[r].id, 0 - preq[r].qty)
            /\ preq' = [preq EXCEPT ![r].pc = "updated", ![r].modified = 1]
       ELSE /\ products' = products
            /\ preq' = [preq EXCEPT ![r].pc = "updated", ![r].modified = 0]
  /\ UNCHANGED <<pcache, now, uvars, ovars>>

PurchaseRespond(r) ==
  /\ preq[r].op = "purchase" /\ preq[r].pc = "updated"
  /\ IF preq[r].modified = 0
       THEN /\ preq' = [preq EXCEPT ![r] =
                          PRespond(preq[r], 400, "Failed to process purchase")]
            /\ pcache' = pcache
       ELSE /\ preq' = [preq EXCEPT ![r] = PRespond(preq[r], 200, "none")]
            /\ pcache' = EmptyCache
  /\ UNCHANGED <<products, now, uvars, ovars>>

\* the response has been sent; the slot takes the next request
ProductFinish(r) ==
  /\ preq[r].pc = "done"
  /\ preq' = [preq EXCEPT ![r] = PIdle]
  /\ UNCHANGED <<products, pcache, now, uvars, ovars>>

\* ----------------------------------------------------------------- user service

MaxUsers == 3

Emails == {"john", "ann"}
Passwords == {"pw1", "pw2"}

\* the 24-character hex form of an ObjectId, and new ObjectId(string)
OidHex == <<"651234567890123456789001", "651234567890123456789002",
            "651234567890123456789003", "651234567890123456789004",
            "651234567890123456789005">>

OidStr(i) == OidHex[i]

IsOid(s) == \E i \in DOMAIN OidHex : OidHex[i] = s

ParseOid(s) == CHOOSE i \in DOMAIN OidHex : OidHex[i] = s

\* what a client may put in /api/users/:id
IdParams == {OidStr(i) : i \in 1..MaxUsers} \cup Emails

\* bcrypt.hash and bcrypt.compare
Hash(password) == <<"bcrypt", password>>

Compare(password, hash) == hash = Hash(password)

LoginTTL == 10    \* 300000 ms
UserListTTL == 2  \* 60000 ms
UserTTL == 4      \* 120000 ms

UserKey(s) == <<"user:", s>>
UsersPageKey(page, limit) == <<"users:page:", page, ":limit:", limit>>
UsersTotalKey == <<"users:total">>

HasPassword(doc) == "password" \in DOMAIN doc

\* a document as findOne returns it, and under {projection: {password: 0}}
UserDoc(i) == [id |-> i] @@ users[i]

ProjectedUserDoc(i) == [id |-> i, email |-> users[i].email]

EmailTaken(email) == \E i \in 1..Len(users) : users[i].email = email

UserByEmail(email) == CHOOSE i \in 1..Len(users) : users[i].email = email

NoDoc == [missing |-> TRUE]

UIdle ==
  [op |-> "idle", pc |-> "idle", email |-> "", password |-> "", param |-> "",
   page |-> 0, limit |-> 0, hit |-> FALSE, stale |-> FALSE, snap |-> {},
   data |-> NoDoc, found |-> <<>>, total |-> 0, userId |-> 0,
   status |-> 0, error |-> "none"] @@ NoTelemetry

\* the metrics middleware of the user service
UserMetricsMiddleware(q, statusCode, ctype) ==
  ResEnd([q EXCEPT !.httpInc = Append(q.httpInc, statusCode),
                   !.httpObs = Append(q.httpObs, statusCode)],
         statusCode, ctype)

URespond(q, status, error) ==
  [UserMetricsMiddleware(q, status, "json") EXCEPT !.error = error]

\* cache.get(key) followed by cacheHitsTotal.inc() or cacheMissesTotal.inc()
CountedLookup(q, hit) ==
  [q EXCEPT !.hit = hit,
            !.lookupHits = q.lookupHits + (IF hit THEN 1 ELSE 0),
            !.lookupMisses = q.lookupMisses + (IF hit THEN 0 ELSE 1),
            !.hitsInc = q.hitsInc + (IF hit THEN 1 ELSE 0),
            !.missesInc = q.missesInc + (IF hit THEN 0 ELSE 1)]

UReqs == {"u1", "u2"}

\* POST /api/users/register
RegisterStart(r) ==
  /\ ureq[r].pc = "idle"
  /\ \E email \in Emails, password \in Passwords :
       ureq' = [ureq EXCEPT ![r] =
                  [UIdle EXCEPT !.op = "register", !.pc = "findOne",
                                !.email = email, !.password = password]]
  /\ UNCHANGED <<users, ucache, now, pvars, ovars>>

RegisterFind(r) ==
  /\ ureq[r].op = "register" /\ ureq[r].pc = "findOne"
  /\ ureq' = [ureq EXCEPT ![r] =
                IF EmailTaken(ureq[r].email)
                  THEN URespond(ureq[r], 400, "User already exists")
                  ELSE [ureq[r] EXCEPT !.pc = "insertOne"]]
  /\ UNCHANGED <<users, ucache, now, pvars, ovars>>

\* db.users.createIndex({email: 1}, {unique: true}): an insert of a taken
\* email is refused by the store
UniqueIndexRefuses(email) == EmailTaken(email)

\* insertOne: the driver throws E11000 on a refused insert, which the handler's
\* catch answers with 500
RegisterInsert(r) ==
  /\ ureq[r].op = "register" /\ ureq[r].pc = "insertOne"
  /\ IF UniqueIndexRefuses(ureq[r].email)
       THEN /\ users' = users
            /\ ureq' = [ureq EXCEPT ![r] =
                          URespond(ureq[r], 500, "E11000 duplicate key error")]
       ELSE /\ Len(users) < MaxUsers
            /\ users' = Append(users, [email |-> ureq[r].email,
                                       password |-> Hash(ureq[r].password)])
            /\ ureq' = [ureq EXCEPT ![r].pc = "inserted",
                                    ![r].userId = Len(users) + 1,
                                    ![r].snap = DOMAIN ucache]
  /\ UNCHANGED <<ucache, now, pvars, ovars>>

\* the cache is left as it is
RegisterRespond(r) ==
  /\ ureq[r].op = "register" /\ ureq[r].pc = "inserted"
  /\ ureq' = [ureq EXCEPT ![r] = URespond(ureq[r], 201, "none")]
  /\ UNCHANGED <<users, ucache, now, pvars, ovars>>

\* the end of the login handler, once `user` is known: bcrypt.compare throws
\* when the document has no password field
LoginOutcome(q, user) ==
  IF ~HasPassword(user)
    THEN URespond(q, 500, "data and hash arguments required")
  ELSE IF ~Compare(q.password, user.password)
    THEN URespond(q, 401, "Invalid credentials")
  ELSE URespond([q EXCEPT !.userId = user.id], 200, "none")

\* POST /api/users/login
LoginStart(r) ==
  /\ ureq[r].pc = "idle"
  /\ \E email \in Emails, password \in Passwords :
       LET q == CountedLookup(
                  [UIdle EXCEPT !.op = "login", !.email = email,
                                !.password = password,
                                !.stale = Stale(ucache, UserKey(email))],
                  CacheHas(ucache, UserKey(email)))
       IN ureq' = [ureq EXCEPT ![r] =
                     IF q.hit
                       THEN LoginOutcome(q, CacheGet(ucache, UserKey(email)))
                       ELSE [q EXCEPT !.pc = "findOne"]]
  /\ UNCHANGED <<users, ucache, now, pvars, ovars>>

LoginFind(r) ==
  /\ ureq[r].op = "login" /\ ureq[r].pc = "findOne"
  /\ IF EmailTaken(ureq[r].email)
       THEN LET user == UserDoc(UserByEmail(ureq[r].email))
            IN /\ ucache' = CacheSet(ucache, UserKey(ureq[r].email), user, LoginTTL)
               /\ ureq' = [ureq EXCEPT ![r] = LoginOutcome(ureq[r], user)]
       ELSE /\ ucache' = ucache
            /\ ureq' = [ureq EXCEPT ![r] =
                          URespond(ureq[r], 401, "Invalid credentials")]
  /\ UNCHANGED <<users, now, pvars, ovars>>

\* GET /api/users
UserListStart(r) ==
  /\ ureq[r].pc = "idle"
  /\ \E page \in Pages, limit \in Limits :
       LET key == UsersPageKey(page, limit)
           q == CountedLookup(
                  [UIdle EXCEPT !.op = "list", !.page = page, !.limit = limit,
                                !.stale = Stale(ucache, key)],
                  CacheHas(ucache, key))
       IN ureq' = [ureq EXCEPT ![r] =
                     IF q.hit
                       THEN URespond([UncountedLookup(q, CacheHas(ucache, UsersTotalKey))
                                      EXCEPT
                                        !.found = CacheGet(ucache, key),
                                        !.total =
                                          IF CacheHas(ucache, UsersTotalKey)
                                            THEN CacheGet(ucache, UsersTotalKey)
                                            ELSE 0],
                                     200, "none")
                       ELSE [q EXCEPT !.pc = "find"]]
  /\ UNCHANGED <<users, ucache, now, pvars, ovars>>

UserListFind(r) ==
  /\ ureq[r].op = "list" /\ ureq[r].pc = "find"
  /\ ureq' = [ureq EXCEPT ![r].pc = "count",
                ![r].found = Slice([i \in 1..Len(users) |-> ProjectedUserDoc(i)],
                                   (ureq[r].page - 1) * ureq[r].limit,
                                   ureq[r].limit)]
  /\ UNCHANGED <<users, ucache, now, pvars, ovars>>

UserListCount(r) ==
  /\ ureq[r].op = "list" /\ ureq[r].pc = "count"
  /\ ucache' = CacheSet(CacheSet(ucache,
                                 UsersPageKey(ureq[r].page, ureq[r].limit),
                                 ureq[r].found, UserListTTL),
                        UsersTotalKey, Len(users), UserListTTL)
  /\ ureq' = [ureq EXCEPT ![r] =
                URespond([ureq[r] EXCEPT !.total = Len(users)], 200, "none")]
  /\ UNCHANGED <<users, now, pvars, ovars>>

\* GET /api/users/:id
GetUserStart(r) ==
  /\ ureq[r].pc = "idle"
  /\ \E id \in IdParams :
       LET q == CountedLookup(
                  [UIdle EXCEPT !.op = "get", !.param = id,
                                !.stale = Stale(ucache, UserKey(id))],
                  CacheHas(ucache, UserKey(id)))
       IN ureq' = [ureq EXCEPT ![r] =
                     IF q.hit
                       THEN URespond([q EXCEPT !.data = CacheGet(ucache, UserKey(id))],
                                     200, "none")
                     ELSE IF ~IsOid(id)
                       THEN URespond(q, 500, "input must be a 24 character hex string")
                     ELSE [q EXCEPT !.pc = "findOne"]]
  /\ UNCHANGED <<users, ucache, now, pvars, ovars>>

GetUserFind(r) ==
  /\ ureq[r].op = "get" /\ ureq[r].pc = "findOne"
  /\ LET i == ParseOid(ureq[r].param)
     IN IF i \in 1..Len(users)
          THEN /\ ucache' = CacheSet(ucache, UserKey(ureq[r].param),
                                     ProjectedUserDoc(i), UserTTL)
               /\ ureq' = [ureq EXCEPT ![r] =
                             URespond([ureq[r] EXCEPT !.data = ProjectedUserDoc(i)],
                                      200, "none")]
          ELSE /\ ucache' = ucache
               /\ ureq' = [ureq EXCEPT ![r] =
                             URespond(ureq[r], 404, "User not found")]
  /\ UNCHANGED <<users, now, pvars, ovars>>

UserFinish(r) ==
  /\ ureq[r].pc = "done"
  /\ ureq' = [ureq EXCEPT ![r] = UIdle]
  /\ UNCHANGED <<users, ucache, now, pvars, ovars>>

\* ---------------------------------------------------------------- order service

\* the bodies a client may post: userId ("" when missing), items ([] when
\* missing, not an array, or empty)
OrderUserIds == {"", OidStr(1), OidStr(2)}
OrderQtys == {0 - 1, 1, 2}
OrderItemInputs == [productId : {1, 2, 3}, quantity : OrderQtys]
OrderItemLists ==
  {<<>>} \cup {<<a>> : a \in OrderItemInputs}
         \cup {<<a, b>> : a \in OrderItemInputs, b \in OrderItemInputs}

OIdle ==
  [op |-> "create", pc |-> "idle", userId |-> "", items |-> <<>>, i |-> 0, orderItems |-> <<>>,
   totalAmount |-> 0, seen |-> <<>>, userOk |-> FALSE, paid |-> FALSE,
   orderId |-> 0, failedAt |-> "none", decCalls |-> 0, decFailed |-> FALSE,
   log |-> <<>>, calls |-> 0, latencyObs |-> 0,
   status |-> 0, error |-> "none"] @@ NoTelemetry

OrderMetricsOnSuccessOnly(q, statusCode, ctype) ==
  IF statusCode < 400
    THEN ResEnd([q EXCEPT !.httpInc = Append(q.httpInc, statusCode),
                          !.httpObs = Append(q.httpObs, statusCode)],
                statusCode, ctype)
    ELSE ResEnd(q, statusCode, ctype)

\* the metrics middleware of the order service
OrderMetricsMiddleware(q, statusCode, ctype) ==
  ResEnd([q EXCEPT !.httpInc = Append(q.httpInc, statusCode),
                   !.httpObs = Append(q.httpObs, statusCode)],
         statusCode, ctype)

ORespondEmptyBody(q, status, error) ==
  OrderMetricsMiddleware(q, status, "json")

\* res.status(status).json({error: message, ...})
ORespond(q, status, error) ==
  [OrderMetricsMiddleware(q, status, "json") EXCEPT !.error = error]

\* `log` lists the steps the handler has taken: the peer calls it issued, the
\* payment, the insert; `calls` counts the GET calls to the peers and
\* `latencyObs` the observations of external_api_latency_seconds (the calls of
\* userTimer and productTimer)
Step(name, i) == [step |-> name, i |-> i]

Logged(q, name, i) == [q EXCEPT !.log = Append(q.log, Step(name, i))]

\* a step of the handler that fails: the answer, and which step it was
OFail(q, step, status, error) ==
  [ORespond(q, status, error) EXCEPT !.failedAt = step]

OReqs == {"o1", "o2"}

\* POST /api/orders: validation, then the user fetch is issued
ValidOrder(userId, items) == userId # "" /\ Len(items) > 0

OrderStart(r) ==
  /\ oreq[r].pc = "idle"
  /\ \E userId \in OrderUserIds, items \in OrderItemLists :
       LET q == [OIdle EXCEPT !.userId = userId, !.items = items]
       IN oreq' = [oreq EXCEPT ![r] =
                     IF ~ValidOrder(userId, items)
                       THEN OFail(q, "validation", 400, "Invalid order data")
                       ELSE [q EXCEPT !.pc = "user"]]
  /\ UNCHANGED <<orders, sreq, now, pvars, uvars>>

\* what GET /api/users/:id of the user service does for the caller: 200 on a
\* cache hit or a document found, and the cache entry it writes
PeerUserFound(id) ==
  \/ CacheHas(ucache, UserKey(id))
  \/ IsOid(id) /\ ParseOid(id) \in 1..Len(users)

PeerUserCache(id) ==
  IF ~CacheHas(ucache, UserKey(id)) /\ PeerUserFound(id)
    THEN CacheSet(ucache, UserKey(id), ProjectedUserDoc(ParseOid(id)), UserTTL)
    ELSE ucache

\* axios.get(USER_SERVICE_URL/api/users/:userId): the call throws when the
\* peer is unreachable or answers 4xx/5xx
OrderUserFetch(r) ==
  /\ oreq[r].pc = "user"
  /\ LET q == [Logged(oreq[r], "user", 0) EXCEPT
                 !.calls = oreq[r].calls + 1,
                 !.latencyObs = oreq[r].latencyObs + 1]
     IN \E reachable \in BOOLEAN :
          IF reachable
            THEN /\ ucache' = PeerUserCache(q.userId)
                 /\ oreq' = [oreq EXCEPT ![r] =
                      IF PeerUserFound(q.userId)
                        THEN [q EXCEPT !.pc = "product", !.i = 1, !.userOk = TRUE]
                        ELSE OFail(q, "user", 400, "User not found")]
            ELSE /\ ucache' = ucache
                 /\ oreq' = [oreq EXCEPT ![r] =
                               OFail(q, "user", 400, "User not found")]
  /\ UNCHANGED <<users, ureq, orders, sreq, now, pvars>>

ItemTotalAdds(price, quantity) == price + quantity

\* const itemTotal = product.price * item.quantity
ItemTotal(price, quantity) == price * quantity

\* the stock check of the order handler: product.stock < item.quantity rejects
StockSuffices(stock, quantity) == ~(stock < quantity)

ProductTimerSkipsRejection(outcome) == IF outcome = "stock" THEN 0 ELSE 1

\* how many times productTimer() runs in one turn of the loop, by the way the
\* turn ends: "failed" (the catch), "stock" (the rejection), "ok" (after the
\* try)
ProductTimerCalls(outcome) == 1

\* the loop over the items: where the handler goes after item i of n
NextItemStepIsPayment(i, n) == "payment"

NextItemStep(i, n) == IF i = n THEN "payment" ELSE "product"

\* one turn of the loop over the items: axios.get of the product, the stock
\* check, the subtotal
OrderProductFetch(r) ==
  /\ oreq[r].pc = "product"
  /\ LET q0 == [Logged(oreq[r], "product", oreq[r].i) EXCEPT
                  !.calls = oreq[r].calls + 1]
         item == q0.items[q0.i]
     IN \E reachable \in BOOLEAN :
          oreq' = [oreq EXCEPT ![r] =
            IF ~reachable \/ ~ProductExists(item.productId)
              THEN OFail([q0 EXCEPT !.latencyObs =
                                      q0.latencyObs + ProductTimerCalls("failed")],
                         "product", 400, "Product not found")
            ELSE LET product == products[item.productId]
                 IN IF ~StockSuffices(product.stock, item.quantity)
                      THEN OFail([q0 EXCEPT !.seen = Append(q0.seen, product),
                                            !.latencyObs =
                                              q0.latencyObs + ProductTimerCalls("stock")],
                                 "stock", 400, "Insufficient stock for product")
                      ELSE LET q == [q0 EXCEPT !.latencyObs =
                                                 q0.latencyObs + ProductTimerCalls("ok")]
                           IN [q EXCEPT
                              !.seen = Append(q.seen, product),
                              !.totalAmount = q.totalAmount
                                                + ItemTotal(product.price, item.quantity),
                              !.orderItems = Append(q.orderItems,
                                 [productId |-> item.productId,
                                  price |-> product.price,
                                  quantity |-> item.quantity,
                                  subtotal |-> ItemTotal(product.price, item.quantity)]),
                              !.i = IF q.i = Len(q.items) THEN 0 ELSE q.i + 1,
                              !.pc = NextItemStep(q.i, Len(q.items))]]
  /\ UNCHANGED <<orders, sreq, now, pvars, uvars>>

PaymentAcceptedAlways(paymentSuccess) == TRUE

\* whether the handler goes on to the insert after simulatePayment returned
PaymentAccepted(paymentSuccess) == paymentSuccess

\* simulatePayment, then the order document is built; new ObjectId(userId)
\* throws on a string that is no ObjectId, which the outer catch answers
OrderPayment(r) ==
  /\ oreq[r].pc = "payment"
  /\ \E paymentSuccess \in BOOLEAN :
       oreq' = [oreq EXCEPT ![r] =
         LET q == Logged(oreq[r], "payment", 0)
         IN IF ~PaymentAccepted(paymentSuccess)
              THEN OFail(q, "payment", 400, "Payment processing failed")
            ELSE IF ~IsOid(q.userId)
              THEN ORespond([q EXCEPT !.paid = paymentSuccess], 500,
                            "input must be a 24 character hex string")
            ELSE [q EXCEPT !.pc = "insertOne", !.paid = paymentSuccess]]
  /\ UNCHANGED <<orders, sreq, now, pvars, uvars>>

\* the document of lines 301-311
OrderDoc(q) ==
  [userId |-> ParseOid(q.userId), items |-> q.orderItems,
   totalAmount |-> q.totalAmount, currency |-> "USD", status |-> "pending"]

OrderInsert(r) ==
  /\ oreq[r].pc = "insertOne"
  /\ orders' = Append(orders, OrderDoc(oreq[r]))
  /\ oreq' = [oreq EXCEPT ![r] =
                [Logged(oreq[r], "insert", 0) EXCEPT
                   !.pc = "decrement", !.i = 1, !.orderId = Len(orders) + 1]]
  /\ UNCHANGED <<sreq, now, pvars, uvars>>

\* where the loop over the stock-decrement calls goes after a call that threw
AfterFailedDecrement(q) ==
  [q EXCEPT !.decFailed = TRUE, !.decCalls = q.decCalls + 1,
            !.i = IF q.i = Len(q.items) THEN 0 ELSE q.i + 1,
            !.pc = IF q.i = Len(q.items) THEN "respond" ELSE "decrement"]

AfterDecrement(q) ==
  [q EXCEPT !.decCalls = q.decCalls + 1,
            !.i = IF q.i = Len(q.items) THEN 0 ELSE q.i + 1,
            !.pc = IF q.i = Len(q.items) THEN "respond" ELSE "decrement"]

\* axios.put(PRODUCT_SERVICE_URL/api/products/:id/stock, {quantity: -quantity}):
\* the product service runs its stock handler (the unconditional $inc, then
\* cache.clear()); a call that throws is logged and the loop goes on
OrderDecrement(r) ==
  /\ oreq[r].pc = "decrement"
  /\ LET q == Logged(oreq[r], "decrement", oreq[r].i)
         item == q.items[q.i]
     IN \E reachable \in BOOLEAN :
          IF reachable /\ ProductExists(item.productId)
            THEN /\ products[item.productId].stock - item.quantity \in StockRange
                 /\ products' = IncStock(item.productId, 0 - item.quantity)
                 /\ pcache' = EmptyCache
                 /\ oreq' = [oreq EXCEPT ![r] = AfterDecrement(q)]
            ELSE /\ products' = products
                 /\ pcache' = pcache
                 /\ oreq' = [oreq EXCEPT ![r] = AfterFailedDecrement(q)]
  /\ UNCHANGED <<preq, orders, sreq, now, uvars>>

\* revenueTotal.inc({currency}, totalAmount): a prom-client Counter throws
\* "It is not possible to decrease a counter" on a negative value
CounterIncThrows(value) == value < 0

\* the metrics after the loop, then res.status(201); an exception thrown here
\* lands in the outer catch, which answers 500
OrderRespond(r) ==
  /\ oreq[r].pc = "respond"
  /\ oreq' = [oreq EXCEPT ![r] =
                IF CounterIncThrows(oreq[r].totalAmount)
                  THEN ORespond(oreq[r], 500, "It is not possible to decrease a counter")
                  ELSE ORespond(oreq[r], 201, "none")]
  /\ UNCHANGED <<orders, sreq, now, pvars, uvars>>

\* ------------------------------------- order service: the other handlers

ValidStatuses == {"pending", "processing", "shipped", "delivered", "cancelled"}

\* the bodies a client may put: a status of the list, another one, none ("")
StatusInputs == ValidStatuses \cup {"refunded", ""}

\* the orders a client may name in /api/orders/:id/status
OrderIdParams == {1, 2}

SIdle ==
  [op |-> "idle", pc |-> "idle", id |-> 0, value |-> "", before |-> "",
   page |-> 0, limit |-> 0, found |-> <<>>, total |-> 0, pages |-> 0,
   ping |-> "none", health |-> "none", userService |-> "none",
   productService |-> "none", status |-> 0, error |-> "none"] @@ NoTelemetry

SRespond(q, status, error) ==
  [OrderMetricsMiddleware(q, status, "json") EXCEPT !.error = error]

SReqs == {"s1"}

StatusAllowedAny(status) == TRUE

\* validStatuses.includes(status)
StatusAllowed(status) == status \in ValidStatuses

\* PUT /api/orders/:id/status: the status is validated, then new ObjectId(id),
\* which throws on a string that is no ObjectId
OrderStatusStart(r) ==
  /\ sreq[r].pc = "idle"
  /\ \E id \in OrderIdParams, isOid \in BOOLEAN, status \in StatusInputs :
       LET q == [SIdle EXCEPT !.op = "status", !.id = id, !.value = status]
       IN sreq' = [sreq EXCEPT ![r] =
                     IF ~StatusAllowed(status)
                       THEN SRespond(q, 400, "Invalid status")
                     ELSE IF ~isOid
                       THEN SRespond(q, 500, "input must be a 24 character hex string")
                     ELSE [q EXCEPT !.pc = "updateOne"]]
  /\ UNCHANGED <<orders, oreq, now, pvars, uvars>>

\* updateOne({_id}, {$set: {status, updatedAt: new Date()}}), then the answer:
\* a matched document is modified (its updatedAt changes), no match gives
\* modifiedCount 0
OrderStatusUpdate(r) ==
  /\ sreq[r].op = "status" /\ sreq[r].pc = "updateOne"
  /\ LET q == sreq[r]
     IN IF q.id \in 1..Len(orders)
          THEN /\ orders' = [orders EXCEPT ![q.id].status = q.value]
               /\ sreq' = [sreq EXCEPT ![r] =
                             SRespond([q EXCEPT !.before = orders[q.id].status],
                                      200, "none")]
          ELSE /\ orders' = orders
               /\ sreq' = [sreq EXCEPT ![r] = SRespond(q, 404, "Order not found")]
  /\ UNCHANGED <<oreq, now, pvars, uvars>>

\* .sort({createdAt: -1}): the newest order first
RECURSIVE Reverse(_)
Reverse(s) == IF s = <<>> THEN <<>> ELSE Append(Reverse(Tail(s)), Head(s))

OrderDocs == [i \in 1..Len(orders) |-> [id |-> i] @@ orders[i]]

\* Math.ceil(total / limit), limit >= 1
CeilDiv(total, limit) == (total + limit - 1) \div limit

\* GET /api/orders (no filter)
OrderListStart(r) ==
  /\ sreq[r].pc = "idle"
  /\ \E page \in Pages, limit \in Limits :
       sreq' = [sreq EXCEPT ![r] =
                  [SIdle EXCEPT !.op = "list", !.pc = "find",
                                !.page = page, !.limit = limit]]
  /\ UNCHANGED <<orders, oreq, now, pvars, uvars>>

OrderListFind(r) ==
  /\ sreq[r].op = "list" /\ sreq[r].pc = "find"
  /\ sreq' = [sreq EXCEPT ![r].pc = "count",
                ![r].found = Slice(Reverse(OrderDocs),
                                   (sreq[r].page - 1) * sreq[r].limit,
                                   sreq[r].limit)]
  /\ UNCHANGED <<orders, oreq, now, pvars, uvars>>

OrderListCount(r) ==
  /\ sreq[r].op = "list" /\ sreq[r].pc = "count"
  /\ sreq' = [sreq EXCEPT ![r] =
                SRespond([sreq[r] EXCEPT
                            !.total = Len(orders),
                            !.pages = CeilDiv(Len(orders), sreq[r].limit)],
                         200, "none")]
  /\ UNCHANGED <<orders, oreq, now, pvars, uvars>>

TopLevelStatusOfPeers(userService, productService) ==
  IF userService = "healthy" /\ productService = "healthy"
    THEN "healthy" ELSE "unhealthy"

\* the `status` of the body res.json sends at the end of the try
TopLevelStatus(userService, productService) == "healthy"

\* axios.get(peer/health).then(() => 'healthy').catch(() => 'unhealthy')
Probe(ok) == IF ok THEN "healthy" ELSE "unhealthy"

\* GET /health: db.command({ping: 1}); a ping that throws is answered by the
\* catch
OrderHealthPing(r) ==
  /\ sreq[r].pc = "idle"
  /\ \E ping \in BOOLEAN :
       LET q == [SIdle EXCEPT !.op = "health"]
       IN sreq' = [sreq EXCEPT ![r] =
                     IF ping
                       THEN [q EXCEPT !.pc = "userProbe", !.ping = "ok"]
                       ELSE SRespond([q EXCEPT !.ping = "failed",
                                               !.health = "unhealthy"],
                                     500, "ping failed")]
  /\ UNCHANGED <<orders, oreq, now, pvars, uvars>>

OrderHealthUserProbe(r) ==
  /\ sreq[r].op = "health" /\ sreq[r].pc = "userProbe"
  /\ \E ok \in BOOLEAN :
       sreq' = [sreq EXCEPT ![r].pc = "productProbe",
                            ![r].userService = Probe(ok)]
  /\ UNCHANGED <<orders, oreq, now, pvars, uvars>>

OrderHealthProductProbe(r) ==
  /\ sreq[r].op = "health" /\ sreq[r].pc = "productProbe"
  /\ \E ok \in BOOLEAN :
       LET q == [sreq[r] EXCEPT !.productService = Probe(ok)]
       IN sreq' = [sreq EXCEPT ![r] =
                     SRespond([q EXCEPT !.health =
                                 TopLevelStatus(q.userService, q.productService)],
                              200, "none")]
  /\ UNCHANGED <<orders, oreq, now, pvars, uvars>>

\* GET /metrics: res.end(await register.metrics()) with the default status,
\* or res.status(500).end(error.message) from the catch
OrderMetrics(r) ==
  /\ sreq[r].pc = "idle"
  /\ \E ok \in BOOLEAN :
       LET q == [SIdle EXCEPT !.op = "metrics"]
       IN sreq' = [sreq EXCEPT ![r] =
                     IF ok
                       THEN OrderMetricsMiddleware(q, 200, "text")
                       ELSE [OrderMetricsMiddleware(q, 500, "text") EXCEPT
                               !.error = "serverStatus failed"]]
  /\ UNCHANGED <<orders, oreq, now, pvars, uvars>>

OrderOpFinish(r) ==
  /\ sreq[r].pc = "done"
  /\ sreq' = [sreq EXCEPT ![r] = SIdle]
  /\ UNCHANGED <<orders, oreq, now, pvars, uvars>>

\* time passes
Tick ==
  /\ now < MaxTime
  /\ now' = now + 1
  /\ UNCHANGED <<products, pcache, preq, uvars, ovars>>

\* ------------------------------------------------------------ specifications

vars == <<products, pcache, preq, users, ucache, ureq, orders, oreq, sreq, now>>

\* The database as the bootstrap script leaves it (two of its three products,
\* their stock and price scaled to the model's range; one of its two users), empty caches, no request in flight.
Init ==
  /\ products = <<[stock |-> MaxStock, price |-> 2], [stock |-> 1, price |-> 3]>>
  /\ pcache = EmptyCache
  /\ preq = [r \in PReqs |-> PIdle]
  /\ users = <<[email |-> "john"]>>
  /\ ucache = EmptyCache
  /\ ureq = [r \in UReqs |-> UIdle]
  /\ orders = <<>>
  /\ oreq = [r \in OReqs |-> OIdle]
  /\ sreq = [r \in SReqs |-> SIdle]
  /\ now = 0

PurchaseNext ==
  \E r \in PReqs :
    \/ PurchaseStart(r)
    \/ PurchaseFind(r)
    \/ PurchaseUpdate(r)
    \/ PurchaseRespond(r)

\* the mutations of the products collection, each slot serving one request
ProductNext ==
  \/ PurchaseNext
  \/ \E r \in PReqs :
       \/ ProductCreateStart(r)
       \/ ProductCreateInsert(r)
       \/ ProductCreateRespond(r)
       \/ StockStart(r)
       \/ StockUpdate(r)
       \/ StockRespond(r)

\* the cached list against product creation
CatalogNext ==
  \E r \in PReqs :
    \/ ProductListStart(r)
    \/ ProductListFind(r)
    \/ ProductListCount(r)
    \/ ProductListRespond(r)
    \/ ProductCreateStart(r)
    \/ ProductCreateInsert(r)
    \/ ProductCreateRespond(r)
    \/ ProductFinish(r)

\* the cache-backed reads of the user service
UserReadNext ==
  \E r \in UReqs :
    \/ LoginStart(r)
    \/ LoginFind(r)
    \/ UserListStart(r)
    \/ UserListFind(r)
    \/ UserListCount(r)
    \/ GetUserStart(r)
    \/ GetUserFind(r)
    \/ UserFinish(r)

UserNext ==
  \/ UserReadNext
  \/ \E r \in UReqs :
       \/ RegisterStart(r)
       \/ RegisterFind(r)
       \/ RegisterInsert(r)
       \/ RegisterRespond(r)

\* each slot serves one order request
OrderNext ==
  \E r \in OReqs :
    \/ OrderStart(r)
    \/ OrderUserFetch(r)
    \/ OrderProductFetch(r)
    \/ OrderPayment(r)
    \/ OrderInsert(r)
    \/ OrderDecrement(r)
    \/ OrderRespond(r)

\* the other handlers of the order service
OrderOpsNext ==
  \E r \in SReqs :
    \/ OrderStatusStart(r)
    \/ OrderStatusUpdate(r)
    \/ OrderListStart(r)
    \/ OrderListFind(r)
    \/ OrderListCount(r)
    \/ OrderHealthPing(r)
    \/ OrderHealthUserProbe(r)
    \/ OrderHealthProductProbe(r)
    \/ OrderMetrics(r)
    \/ OrderOpFinish(r)

\* one order request, and the other handlers serving request after request
OrderAdminNext ==
  \/ OrderStart("o1")
  \/ OrderUserFetch("o1")
  \/ OrderProductFetch("o1")
  \/ OrderPayment("o1")
  \/ OrderInsert("o1")
  \/ OrderDecrement("o1")
  \/ OrderRespond("o1")
  \/ OrderOpsNext

\* no request of the service has arrived yet
ProductQuiet == \A r \in PReqs : preq[r].pc = "idle"

UserQuiet == \A r \in UReqs : ureq[r].pc = "idle"

OrderQuiet ==
  /\ \A r \in OReqs : oreq[r].pc = "idle"
  /\ \A r \in SReqs : sreq[r].pc = "idle"

\* every handler of the product service, each slot serving one request
ProductOnceNext ==
  \/ ProductNext
  \/ \E r \in PReqs :
       \/ ProductListStart(r)
       \/ ProductListFind(r)
       \/ ProductListCount(r)
       \/ ProductListRespond(r)

\* every handler of the user service, each slot serving one request
UserOnceNext ==
  \E r \in UReqs :
    \/ RegisterStart(r)
    \/ RegisterFind(r)
    \/ RegisterInsert(r)
    \/ RegisterRespond(r)
    \/ LoginStart(r)
    \/ LoginFind(r)
    \/ UserListStart(r)
    \/ UserListFind(r)
    \/ UserListCount(r)
    \/ GetUserStart(r)
    \/ GetUserFind(r)

\* the three services, one of them receiving requests
ServicesNext ==
  \/ UserQuiet /\ OrderQuiet /\ ProductOnceNext
  \/ ProductQuiet /\ OrderQuiet /\ UserOnceNext
  \/ ProductQuiet /\ UserQuiet /\ OrderAdminNext

\* two purchase requests, each slot serving one request
SpecPurchase == Init /\ [][PurchaseNext]_vars

SpecProduct == Init /\ [][ProductNext]_vars

SpecCatalog == Init /\ [][CatalogNext]_vars

SpecUser == Init /\ [][UserNext]_vars

SpecOrder == Init /\ [][OrderNext]_vars

SpecOrderAdmin == Init /\ [][OrderAdminNext]_vars

SpecServices == Init /\ [][ServicesNext]_vars

\* the cache-backed reads of the user service while time passes
SpecUserClock == Init /\ [][UserReadNext \/ Tick]_vars

\* ----------------------------------------------------------------- the claims

\* the stock of the seeded product when the two purchase requests arrive
SeedStock == MaxStock

\* The case of C1: both slots have answered a purchase of the seeded product,
\* each quantity fits the initial stock alone, and the two together do not.
RaceCase ==
  /\ \A r \in PReqs : preq[r].op = "purchase" /\ preq[r].pc = "done" /\ preq[r].id = 1
  /\ \A r \in PReqs : preq[r].qty <= SeedStock
  /\ preq["p1"].qty + preq["p2"].qty > SeedStock

\* C1 as stated: of two concurrent purchases that together exceed the stock,
\* exactly one succeeds and the other is rejected with "Insufficient stock".
C1_OneSuccessOneInsufficientStock ==
  RaceCase =>
    \E w \in PReqs : \E l \in PReqs \ {w} :
      /\ preq[w].status = 200
      /\ preq[l].status = 400 /\ preq[l].error = "Insufficient stock"

\* C1 as amended: exactly one succeeds and the other is rejected with 400,
\* either "Insufficient stock" (its read came after the winner's write) or
\* "Failed to process purchase" (its conditional update matched nothing); the
\* stock is the initial stock less the winner's quantity.
C1_OneSuccessOneRejection ==
  RaceCase =>
    \E w \in PReqs : \E l \in PReqs \ {w} :
      /\ preq[w].status = 200
      /\ preq[l].status = 400
      /\ preq[l].error \in {"Insufficient stock", "Failed to process purchase"}
      /\ products[1].stock = SeedStock - preq[w].qty

\* both requests read the stock before either wrote, and the loser's
\* conditional update matched nothing
C1_Witness ==
  /\ RaceCase
  /\ \E l \in PReqs : preq[l].error = "Failed to process purchase"

\* C2: the stock of every product is >= 0 in every reachable state.
C2_StockNeverNegative ==
  \A i \in 1..Len(products) : products[i].stock >= 0

\* C3: no 200 response of GET /api/users/:id or GET /api/users carries a
\* password hash.
C3_NoPasswordInResponse ==
  \A r \in UReqs :
    (ureq[r].pc = "done" /\ ureq[r].status = 200 /\ ureq[r].op \in {"get", "list"})
      => /\ ~HasPassword(ureq[r].data)
         /\ \A i \in 1..Len(ureq[r].found) : ~HasPassword(ureq[r].found[i])

\* C4: a lookup of an entry whose TTL has run out (now - insertedAt > ttl) is a
\* miss.
C4_StaleEntryIsMiss ==
  \A r \in UReqs : ureq[r].stale => ~ureq[r].hit

\* C5: when the response of a successful registration is sent, no entry that
\* was in the cache when the user was inserted is still there.
C5_RegistrationClearsCache ==
  [][\A r \in UReqs :
       (ureq[r].op = "register" /\ ureq[r].pc = "inserted" /\ ureq'[r].pc = "done")
         => \A k \in ureq[r].snap : k \notin DOMAIN ucache']_vars

\* C6: a registration that creates no record is rejected with a Conflict
\* error (400 or 409), and no two persisted users share an email.
C6_DuplicateIsConflict ==
  /\ \A r \in UReqs :
       (ureq[r].op = "register" /\ ureq[r].pc = "done" /\ ureq[r].status # 201)
         => ureq[r].status \in {400, 409}
  /\ \A i, j \in 1..Len(users) : users[i].email = users[j].email => i = j

\* C7: a POST /api/orders that is answered with an error (4xx or 5xx) has
\* persisted no order.
C7_ErrorMeansNotPersisted ==
  \A r \in OReqs :
    (oreq[r].pc = "done" /\ oreq[r].status >= 400) => oreq[r].orderId = 0

\* C8: an order is persisted only by a request whose payload passed
\* validation, whose user fetch succeeded, whose every item was fetched with
\* quantity <= the stock returned, and whose payment succeeded; a request that
\* failed one of these steps is answered with 400 and has persisted nothing;
\* and the collection holds exactly the orders such requests inserted.
C8_PersistedOnlyAfterAllSteps ==
  /\ \A r \in OReqs :
       /\ oreq[r].orderId # 0 =>
            /\ ValidOrder(oreq[r].userId, oreq[r].items)
            /\ oreq[r].userOk
            /\ Len(oreq[r].seen) = Len(oreq[r].items)
            /\ \A i \in 1..Len(oreq[r].items) :
                 oreq[r].items[i].quantity <= oreq[r].seen[i].stock
            /\ oreq[r].paid
       /\ oreq[r].failedAt # "none" =>
            /\ oreq[r].pc = "done" /\ oreq[r].status = 400
            /\ oreq[r].orderId = 0
  /\ Len(orders) = Cardinality({r \in OReqs : oreq[r].orderId # 0})

\* one request persisted a two-item order while the other was stopped by a
\* failed payment
C8_Witness ==
  \E r, s \in OReqs :
    /\ oreq[r].orderId # 0 /\ Len(oreq[r].items) = 2
    /\ oreq[s].failedAt = "payment" /\ oreq[s].pc = "done"

RECURSIVE SumSubtotals(_)
SumSubtotals(items) ==
  IF items = <<>> THEN 0
  ELSE items[1].subtotal + SumSubtotals(Tail(items))

\* C9: the order a request inserts has status "pending", one item per
\* requested item in request order, each subtotal the fetched price times the
\* requested quantity, and totalAmount the sum of the subtotals.
C9_OrderAtCreation ==
  [][\A r \in OReqs :
       (oreq[r].pc = "insertOne" /\ oreq'[r].pc = "decrement") =>
         LET d == orders'[Len(orders')]
             q == oreq[r]
         IN /\ Len(orders') = Len(orders) + 1
            /\ d.status = "pending"
            /\ d.totalAmount = SumSubtotals(d.items)
            /\ Len(d.items) = Len(q.items)
            /\ \A i \in 1..Len(q.items) :
                 /\ d.items[i].productId = q.items[i].productId
                 /\ d.items[i].quantity = q.items[i].quantity
                 /\ d.items[i].price = q.seen[i].price
                 /\ d.items[i].subtotal = q.seen[i].price * q.items[i].quantity]_vars

\* an order of two different products at different prices has been persisted
C9_Witness ==
  \E r \in OReqs :
    /\ oreq[r].orderId # 0 /\ Len(oreq[r].items) = 2
    /\ oreq[r].items[1].productId # oreq[r].items[2].productId
    /\ oreq[r].items[1].quantity = 2
    /\ orders[oreq[r].orderId].totalAmount = 7

\* C10: a request one of whose stock-decrement calls failed has still made
\* one call per item, left its order in the collection as inserted, and is
\* answered with 201 and the order's id.
C10_DecrementFailureIsHarmless ==
  \A r \in OReqs :
    (oreq[r].pc = "done" /\ oreq[r].decFailed) =>
      /\ oreq[r].status = 201
      /\ oreq[r].orderId \in 1..Len(orders)
      /\ orders[oreq[r].orderId] = OrderDoc(oreq[r])
      /\ oreq[r].decCalls = Len(oreq[r].items)

\* C11: a login that does not succeed, whether the email is unknown or the
\* email is known and the password is not the user's, and whether the user
\* record came from the cache or from the database, is answered with 401 and
\* the same error body.
C11_FailedLoginsAlike ==
  \A r \in UReqs :
    (ureq[r].op = "login" /\ ureq[r].pc = "done" /\ ureq[r].status # 200)
      => ureq[r].status = 401 /\ ureq[r].error = "Invalid credentials"

\* the requests of the three services, in flight or answered
Requests ==
  {preq[r] : r \in PReqs} \cup {ureq[r] : r \in UReqs}
    \cup {oreq[r] : r \in OReqs} \cup {sreq[r] : r \in SReqs}

OneResponse(q) ==
  /\ q.sent <= 1
  /\ q.pc = "done" <=> q.sent = 1

\* C13 as stated: every request gets exactly one response, and every failure
\* (a response with a 4xx or 5xx status) is a JSON body carrying an error
\* message.
C13_FailuresAreJsonErrors ==
  \A q \in Requests :
    /\ OneResponse(q)
    /\ (q.pc = "done" /\ q.status >= 400) =>
         q.ctype = "json" /\ q.error # "none"

\* C13 as amended: the same, except that a failure of GET /metrics is answered
\* with the error message as a plain-text body.
C13_FailuresCarryMessage ==
  \A q \in Requests :
    /\ OneResponse(q)
    /\ (q.pc = "done" /\ q.status >= 400) =>
         /\ q.error # "none"
         /\ q.ctype = (IF q.op = "metrics" THEN "text" ELSE "json")

\* an order request answered from the catch branch after revenueTotal.inc
\* threw, with one JSON error body
C13_Witness ==
  /\ oreq["o1"].pc = "done" /\ oreq["o1"].status = 500
  /\ oreq["o1"].sent = 1 /\ oreq["o1"].ctype = "json"
  /\ oreq["o1"].error = "It is not possible to decrease a counter"

\* C14: the status of every persisted order is one of pending, processing,
\* shipped, delivered, cancelled; a PUT /api/orders/:id/status with a value
\* outside the set is answered 400 and leaves the orders as they are; with a
\* value inside the set and an existing order it is answered 200 and the order
\* takes the value, whatever its status was.
C14_StatusStaysInEnum ==
  [][/\ \A i \in 1..Len(orders') : orders'[i].status \in ValidStatuses
     /\ \A r \in SReqs :
          /\ (sreq[r].pc = "idle" /\ sreq'[r].op = "status"
                /\ sreq'[r].value \notin ValidStatuses)
               => /\ sreq'[r].pc = "done" /\ sreq'[r].status = 400
                  /\ orders' = orders
          /\ (sreq[r].op = "status" /\ sreq[r].pc = "updateOne"
                /\ sreq'[r].pc = "done" /\ sreq[r].id \in 1..Len(orders))
               => /\ sreq'[r].status = 200
                  /\ orders'[sreq[r].id].status = sreq[r].value
                  /\ sreq'[r].before = orders[sreq[r].id].status]_vars

\* a cancelled order has been put back to pending
C14_Witness ==
  \E r \in SReqs :
    /\ sreq[r].op = "status" /\ sreq[r].pc = "done" /\ sreq[r].status = 200
    /\ sreq[r].before = "cancelled" /\ sreq[r].value = "pending"
    /\ orders[sreq[r].id].status = "pending"

\* C15: GET /health of the order service answers with top-level status
\* "healthy" exactly when the database ping succeeded, whatever the two peer
\* probes returned; a failed probe only makes the peer's entry "unhealthy";
\* a failed ping gives status "unhealthy".
C15_HealthFollowsPing ==
  \A r \in SReqs :
    (sreq[r].op = "health" /\ sreq[r].pc = "done") =>
      IF sreq[r].ping = "ok"
        THEN /\ sreq[r].status = 200 /\ sreq[r].health = "healthy"
             /\ sreq[r].userService \in {"healthy", "unhealthy"}
             /\ sreq[r].productService \in {"healthy", "unhealthy"}
        ELSE /\ sreq[r].ping = "failed"
             /\ sreq[r].status = 500 /\ sreq[r].health = "unhealthy"
             /\ sreq[r].userService = "none" /\ sreq[r].productService = "none"

\* the ping succeeded and both peers are unreachable
C15_Witness ==
  \E r \in SReqs :
    /\ sreq[r].op = "health" /\ sreq[r].pc = "done"
    /\ sreq[r].ping = "ok" /\ sreq[r].health = "healthy"
    /\ sreq[r].userService = "unhealthy" /\ sreq[r].productService = "unhealthy"

\* the items at positions (page-1)*limit+1 .. min(page*limit, n) of docs
PageOf(docs, page, limit) ==
  [j \in 1..(Min(page * limit, Len(docs)) - Min((page - 1) * limit, Len(docs))) |->
     docs[(page - 1) * limit + j]]

\* the first k documents of a collection that only grows
Upto(docs, k) == [j \in 1..k |-> docs[j]]

UserListDocs == [i \in 1..Len(users) |-> ProjectedUserDoc(i)]

\* a user list answered in this step
UserListAnswered(r) ==
  ureq[r].pc # "done" /\ ureq'[r].pc = "done" /\ ureq'[r].op = "list"

\* C16: a list response carries the items at positions (page-1)*limit+1 ..
\* min(page*limit, n) of the collection and total = n.  Served from the cache
\* the page is that of the collection as it is; computed from the database
\* the items are those of the collection as it was when it was read and the
\* total is n.  The product list served from the cache is answered 200 with
\* the page of the collection.
C16_PageOfCollection ==
  [][/\ \A r \in UReqs :
          UserListAnswered(r) =>
            LET q == ureq'[r]
            IN /\ q.status = 200
               /\ q.total = Len(users)
               /\ IF q.hit
                    THEN q.found = PageOf(UserListDocs, q.page, q.limit)
                    ELSE \E k \in 0..Len(users) :
                           q.found = PageOf(Upto(UserListDocs, k), q.page, q.limit)
     /\ \A r \in PReqs :
          (preq[r].pc = "idle" /\ preq'[r].pc = "done" /\ preq'[r].op = "list") =>
            /\ preq'[r].status = 200
            /\ preq'[r].total = Len(products)
            /\ preq'[r].found = PageOf(ProductDocs, preq'[r].page, preq'[r].limit)
     /\ \A r \in SReqs :
          (sreq[r].pc # "done" /\ sreq'[r].pc = "done" /\ sreq'[r].op = "list") =>
            LET q == sreq'[r]
            IN /\ q.status = 200
               /\ q.total = Len(orders)
               /\ q.pages * q.limit >= q.total
               /\ (q.pages - 1) * q.limit < q.total \/ q.total = 0
               /\ \E k \in 0..Len(orders) :
                    q.found = PageOf(Reverse(Upto(OrderDocs, k)), q.page, q.limit)]_vars

\* C17: every cache lookup of a handler of the user service or of the product
\* service increments exactly one counter: cache_hits_total when the lookup
\* returned an entry, cache_misses_total when it did not.
C17_EveryLookupCounted ==
  \A q \in {preq[r] : r \in PReqs} \cup {ureq[r] : r \in UReqs} :
    q.hitsInc = q.lookupHits /\ q.missesInc = q.lookupMisses

\* the steps of a request for n items that runs to its end, in the claimed
\* order
ExpectedSteps(n) ==
  <<Step("user", 0)>> \o [i \in 1..n |-> Step("product", i)]
    \o <<Step("payment", 0), Step("insert", 0)>>
    \o [i \in 1..n |-> Step("decrement", i)]

IsPrefix(s, t) ==
  Len(s) <= Len(t) /\ \A i \in 1..Len(s) : s[i] = t[i]

HasStep(q, name) == \E k \in 1..Len(q.log) : q.log[k].step = name

\* C18: within one order request the user fetch comes first, then the product
\* fetches one item at a time in request order, then the payment step, once
\* every item was validated, then the insert, only after the payment
\* succeeded, then the stock-decrement calls, one item at a time.
C18_StepsInOrder ==
  \A r \in OReqs :
    LET q == oreq[r]
    IN /\ IsPrefix(q.log, ExpectedSteps(Len(q.items)))
       /\ HasStep(q, "payment") => Len(q.orderItems) = Len(q.items)
       /\ HasStep(q, "insert") => q.paid /\ q.orderId # 0
       /\ HasStep(q, "decrement") => q.orderId \in 1..Len(orders)

\* an order of two items has gone through every step
C18_Witness ==
  \E r \in OReqs :
    /\ oreq[r].pc = "done" /\ oreq[r].status = 201
    /\ Len(oreq[r].items) = 2
    /\ oreq[r].log = ExpectedSteps(2)

\* the GET calls to the peers a request has issued
PeerCalls(q) ==
  Cardinality({k \in 1..Len(q.log) : q.log[k].step \in {"user", "product"}})

\* C19: each GET call to a peer during order creation (the user fetch, each
\* product fetch) has recorded its latency in external_api_latency_seconds
\* exactly once, whether the call succeeded, failed, or the item was rejected
\* for insufficient stock.
C19_LatencyRecordedOnce ==
  \A r \in OReqs :
    /\ oreq[r].calls = PeerCalls(oreq[r])
    /\ oreq[r].latencyObs = oreq[r].calls

\* a request rejected for insufficient stock on its second item, after three
\* calls and three observations
C19_Witness ==
  \E r \in OReqs :
    /\ oreq[r].pc = "done" /\ oreq[r].failedAt = "stock"
    /\ Len(oreq[r].seen) = 2
    /\ oreq[r].calls = 3 /\ oreq[r].latencyObs = 3

\* a mutation of the products collection has written and not yet answered
MutationPending ==
  \E r \in PReqs :
    /\ preq[r].op \in {"create", "stock", "purchase"}
    /\ preq[r].pc \in {"inserted", "updated"}

\* what a list request for the page of key k computes from the collection
CurrentPage(k) ==
  [products |-> PageOf(ProductDocs, k[3], k[4]), totalProducts |-> Len(products)]

\* C20: once every mutation of the products collection has sent its
\* response, the cache of the product service holds no entry computed before
\* a mutation: every entry a later list request can be served from is the
\* page of the collection as it is.
C20_NoPreMutationEntry ==
  ~MutationPending =>
    \A k \in DOMAIN pcache : CacheGet(pcache, k) = CurrentPage(k)

\* a list request that was answered from the entry an earlier identical
\* request stored in the cache
ServedFromCache(q) ==
  /\ q.op = "list" /\ q.pc = "done"
  /\ q.lookupHits = 1

\* C21: a GET /api/products request served from the entry that an earlier
\* identical request stored is answered as that request was: status 200, the
\* items and the total of the stored entry, which are the page and the count
\* the first request read from the database.
C21_RepeatedListAlike ==
  \A r \in PReqs :
    LET q == preq[r]
        k == ProductsKey(q.page, q.limit)
    IN ServedFromCache(q) /\ CacheHas(pcache, k) =>
         /\ q.status = 200
         /\ q.found = CacheGet(pcache, k).products
         /\ q.total = CacheGet(pcache, k).totalProducts

====
